---- MODULE Spec2Model ----
(***************************************************************************)
(* A model of the Rat-a-Tat Cat game engine (src/src/GameLogic.js):        *)
(* classes Card, Player and RatATatCatGame.  The state of one              *)
(* RatATatCatGame object is the set of VARIABLES below; every public       *)
(* method is a pure operator from a game record to a result record (the    *)
(* new game record and the returned object), and an action of the          *)
(* next-state relation applies one method call.                            *)
(*                                                                         *)
(* Indices (currentPlayerIndex, cardIndex) are 0-based as in the code;     *)
(* TLA+ sequences are 1-based, so slot k of a hand h is h[k + 1].          *)
(***************************************************************************)
EXTENDS Integers, Sequences, FiniteSets, TLC

(***************************************************************************)
(* Bounds of the model.  The deck of the program holds the values 0..8     *)
(* four times each, nine 9s, three each of peek/swap/draw2 and two         *)
(* addcard (36 + 9 + 9 + 2 = 56 cards); the model builds its deck with     *)
(* the same loops over smaller counts.                                     *)
(***************************************************************************)
MaxLowValue == 1
LowCopies == 2
NineCopies == 3
PowerCopies == 2
AddCardCopies == 1
NumIds == 3
MaxSeed == 3
MaxSteps == 9
MaxRounds == 2
MaxRemovals == 1
MaxCardIndex == 1

\* Program constants.
HandSize == 4
MaxPlayers == 6
Draw2Budget == 2

\* The counts of initializeDeck.
GameMaxLowValue == 8
GameLowCopies == 4
GameNineCopies == 9
GamePowerCopies == 3
GameAddCardCopies == 2

VARIABLES
    players,                    \* Seq of [id, hand, knownCards, score, totalScore]
    deck,                       \* draw pile, top = last element
    discardPile,                \* discard pile, top = last element
    currentPlayerIndex,         \* 0-based
    drawnCard,                  \* pending card or NullCard
    drawnFromDiscard,
    gameStarted,
    roundEnded,
    knockerId,                  \* NoId when nobody knocked
    finalRoundActive,
    playersCompletedFinalTurn,
    draw2ChainActive,
    draw2CardsRemaining,
    rng,                        \* the stream Math.random() draws from
    last,                       \* the last call that changed the state
    steps,                      \* number of calls applied so far
    rounds,                     \* number of rounds started so far
    removals,                   \* number of players removed so far
    final                       \* history of the final round: the ids in the
                                \* match when knock() succeeded, and the ids
                                \* whose turns have ended since

gameVars == <<players, deck, discardPile, currentPlayerIndex, drawnCard,
              drawnFromDiscard, gameStarted, roundEnded, knockerId,
              finalRoundActive, playersCompletedFinalTurn, draw2ChainActive,
              draw2CardsRemaining>>

vars == <<players, deck, discardPile, currentPlayerIndex, drawnCard,
          drawnFromDiscard, gameStarted, roundEnded, knockerId,
          finalRoundActive, playersCompletedFinalTurn, draw2ChainActive,
          draw2CardsRemaining, rng, last, steps, rounds, removals, final>>

----------------------------------------------------------------------------
\* class Card

NoValue == 0 - 1

Card(type, value) == [type |-> type, value |-> value]

\* JavaScript's null where a Card is expected.
NullCard == Card("null", NoValue)

NumberCard(v) == Card("number", v)

PowerCard(type) == Card(type, NoValue)

getPoints(card) == IF card.type = "number" THEN card.value ELSE 0

isPowerCard(card) == card.type # "number"

\* JavaScript truthiness of a Card reference.
Truthy(card) == card # NullCard

NoId == 0

PlayerIds == 1..NumIds

----------------------------------------------------------------------------
\* Sequence helpers.

Last(s) == s[Len(s)]

Front(s) == SubSeq(s, 1, Len(s) - 1)

\* s with the elements at 0-based positions i and j exchanged.
SwapAt(s, i, j) == [s EXCEPT ![i + 1] = s[j + 1], ![j + 1] = s[i + 1]]

Repeat(x, n) == [k \in 1..n |-> x]

RECURSIVE SumPoints(_)
SumPoints(hand) ==
    IF hand = <<>> THEN 0 ELSE getPoints(hand[1]) + SumPoints(Tail(hand))

RECURSIVE SumLen(_)
SumLen(ps) ==
    IF ps = <<>> THEN 0 ELSE Len(ps[1].hand) + SumLen(Tail(ps))

----------------------------------------------------------------------------
\* class Player

NewPlayer(id) ==
    [id |-> id, hand |-> <<>>, knownCards |-> <<>>, score |-> 0, totalScore |-> 0]

\* Mutant of addCard: the known mask is not extended.
addCard_noMask(player, card) ==
    [player EXCEPT !.hand = Append(@, card)]

\* Mutant of addCard: the new card is marked known.
addCard_known(player, card) ==
    [player EXCEPT !.hand = Append(@, card),
                   !.knownCards = Append(@, TRUE)]

\* Player.addCard
addCard(player, card) ==
    [player EXCEPT !.hand = Append(@, card),
                   !.knownCards = Append(@, FALSE)]

\* Player.replaceCard: the player after the replacement (the old card is
\* player.hand[index + 1], read by the caller before the call).
replaceCard(player, index, newCard) ==
    [player EXCEPT !.hand[index + 1] = newCard]

\* Player.calculateScore
calculateScore(player) ==
    [player EXCEPT !.score = SumPoints(player.hand)]

----------------------------------------------------------------------------
\* class RatATatCatGame: the object as a record, and its constructor.

Game ==
    [players |-> players, deck |-> deck, discardPile |-> discardPile,
     currentPlayerIndex |-> currentPlayerIndex, drawnCard |-> drawnCard,
     drawnFromDiscard |-> drawnFromDiscard, gameStarted |-> gameStarted,
     roundEnded |-> roundEnded, knockerId |-> knockerId,
     finalRoundActive |-> finalRoundActive,
     playersCompletedFinalTurn |-> playersCompletedFinalTurn,
     draw2ChainActive |-> draw2ChainActive,
     draw2CardsRemaining |-> draw2CardsRemaining]

NewGame ==
    [players |-> <<>>, deck |-> <<>>, discardPile |-> <<>>,
     currentPlayerIndex |-> 0, drawnCard |-> NullCard,
     drawnFromDiscard |-> FALSE, gameStarted |-> FALSE,
     roundEnded |-> FALSE, knockerId |-> NoId,
     finalRoundActive |-> FALSE, playersCompletedFinalTurn |-> 0,
     draw2ChainActive |-> FALSE, draw2CardsRemaining |-> 0]

\* What a method call produces: the object afterwards, the fields of the
\* returned object (success, error, card, info) and how the call ended:
\* "returned", "threw" (a TypeError on null/undefined) or "hung" (a loop
\* that never exits).
Result(g, success, error, card, info, outcome) ==
    [g |-> g, success |-> success, error |-> error, card |-> card,
     info |-> info, outcome |-> outcome]

Ok(g) == Result(g, TRUE, "", NullCard, "", "returned")

OkCard(g, card, info) == Result(g, TRUE, "", card, info, "returned")

Fail(g, error) == Result(g, FALSE, error, NullCard, "", "returned")

Threw(g) == Result(g, FALSE, "TypeError", NullCard, "", "threw")

Hung(g) == Result(g, FALSE, "", NullCard, "", "hung")

\* ============ DECK MANAGEMENT ============

RECURSIVE LowCards(_)
LowCards(value) ==
    IF value > MaxLowValue THEN <<>>
    ELSE Repeat(NumberCard(value), LowCopies) \o LowCards(value + 1)

RECURSIVE PowerCards(_)
PowerCards(i) ==
    IF i >= PowerCopies THEN <<>>
    ELSE <<PowerCard("peek"), PowerCard("swap"), PowerCard("draw2")>>
         \o PowerCards(i + 1)

\* The deck in the order initializeDeck pushes it, before shuffling.
BuildDeck ==
    LowCards(0) \o Repeat(NumberCard(9), NineCopies) \o PowerCards(0)
    \o Repeat(PowerCard("addcard"), AddCardCopies)

DeckSize == Len(BuildDeck)

RECURSIVE GameLowCards(_)
GameLowCards(value) ==
    IF value > GameMaxLowValue THEN <<>>
    ELSE Repeat(NumberCard(value), GameLowCopies) \o GameLowCards(value + 1)

RECURSIVE GamePowerCards(_)
GamePowerCards(i) ==
    IF i >= GamePowerCopies THEN <<>>
    ELSE <<PowerCard("peek"), PowerCard("swap"), PowerCard("draw2")>>
         \o GamePowerCards(i + 1)

\* The deck initializeDeck pushes with the counts of the program.
GameDeck ==
    GameLowCards(0) \o Repeat(NumberCard(9), GameNineCopies)
    \o GamePowerCards(0) \o Repeat(PowerCard("addcard"), GameAddCardCopies)

\* Math.floor(Math.random() * (i + 1)): any index in 0..i.  The model draws
\* Math.random() from a family of MaxSeed + 1 pseudo-random streams.
Random(seed, i) == (seed * seed + 6 * seed + (i \div 2)) % (i + 1)

RECURSIVE FisherYates(_, _, _)
FisherYates(d, i, seed) ==
    IF i < 1 THEN d
    ELSE FisherYates(SwapAt(d, i, Random(seed, i)), i - 1, seed)

\* shuffleDeck, on the sequence d
Shuffle(d, seed) == FisherYates(d, Len(d) - 1, seed)

\* drawCard: [g |-> the game afterwards, card |-> the card or NullCard]
\* Mutant of drawCard: the top discard is shuffled into the deck as well.
drawCard_withTop(g, seed) ==
    LET g1 == IF Len(g.deck) = 0 /\ Len(g.discardPile) > 1
              THEN [g EXCEPT !.deck = Shuffle(g.discardPile, seed),
                             !.discardPile = <<Last(g.discardPile)>>]
              ELSE g
    IN  IF Len(g1.deck) > 0
        THEN [g |-> [g1 EXCEPT !.deck = Front(@)], card |-> Last(g1.deck)]
        ELSE [g |-> g1, card |-> NullCard]

drawCard(g, seed) ==
    LET g1 == IF Len(g.deck) = 0 /\ Len(g.discardPile) > 1
              THEN [g EXCEPT !.deck = Shuffle(Front(g.discardPile), seed),
                             !.discardPile = <<Last(g.discardPile)>>]
              ELSE g
    IN  IF Len(g1.deck) > 0
        THEN [g |-> [g1 EXCEPT !.deck = Front(@)], card |-> Last(g1.deck)]
        ELSE [g |-> g1, card |-> NullCard]

\* ============ GAME FLOW ============

HasPlayer(g, id) == \E k \in 1..Len(g.players) : g.players[k].id = id

\* players.find(p => p.id === id), as a 1-based position (0: undefined)
FindPlayer(g, id) ==
    IF HasPlayer(g, id)
    THEN CHOOSE k \in 1..Len(g.players) :
            /\ g.players[k].id = id
            /\ \A m \in 1..(k - 1) : g.players[m].id # id
    ELSE 0

\* getCurrentPlayer() is undefined when the index is outside the array
HasCurrentPlayer(g) == g.currentPlayerIndex < Len(g.players)

getCurrentPlayer(g) == g.players[g.currentPlayerIndex + 1]

\* getCurrentPlayer()?.id
CurrentPlayerId(g) == IF HasCurrentPlayer(g) THEN getCurrentPlayer(g).id ELSE NoId

addPlayer(g, playerId) ==
    IF Len(g.players) >= MaxPlayers THEN Fail(g, "full")
    ELSE IF g.gameStarted THEN Fail(g, "started")
    ELSE Ok([g EXCEPT !.players = Append(@, NewPlayer(playerId))])

\* players.filter(p => p.id !== playerId)
RECURSIVE FilterOut(_, _)
FilterOut(ps, playerId) ==
    IF ps = <<>> THEN <<>>
    ELSE IF ps[1].id = playerId THEN FilterOut(Tail(ps), playerId)
    ELSE <<ps[1]>> \o FilterOut(Tail(ps), playerId)

\* Mutant of removePlayer: the turn pointer is left where it was.
removePlayer_keepsIndex(g, playerId) ==
    LET ps == FilterOut(g.players, playerId)
        g1 == [g EXCEPT !.players = ps]
    IN  Result(g1, Len(ps) = 0, "", NullCard, "", "returned")

removePlayer(g, playerId) ==
    LET ps == FilterOut(g.players, playerId)
        g1 == [g EXCEPT !.players = ps]
        g2 == IF g1.currentPlayerIndex >= Len(ps)
              THEN [g1 EXCEPT !.currentPlayerIndex = 0]
              ELSE g1
    IN  Result(g2, Len(ps) = 0, "", NullCard, "", "returned")

\* The inner loop of the deal: i cards pushed so far to player p (1-based).
RECURSIVE DealTo(_, _, _, _)
DealTo(g, p, i, seed) ==
    IF i >= HandSize THEN g
    ELSE LET d == drawCard(g, seed)
         IN  DealTo([d.g EXCEPT !.players[p].hand = Append(@, d.card),
                                !.players[p].knownCards = Append(@, FALSE)],
                    p, i + 1, seed)

\* players.forEach of startRound, from player p on.
RECURSIVE Deal(_, _, _)
Deal(g, p, seed) ==
    IF p > Len(g.players) THEN g
    ELSE Deal(DealTo([g EXCEPT !.players[p].hand = <<>>,
                               !.players[p].knownCards = <<>>], p, 0, seed),
              p + 1, seed)

\* The first-discard loop of startRound: the card in hand is firstDiscard,
\* n counts the redraws (each reshuffle continues the random stream, here
\* stream seed + n).  The loop ends with probability 1 when the deck holds
\* a Number card; a stream that has not ended it after DeckSize redraws is
\* left out of the model (outcome "hung").
RECURSIVE FirstDiscard(_, _, _, _)
FirstDiscard(g, firstDiscard, seed, n) ==
    IF ~Truthy(firstDiscard) THEN Threw(g)
    ELSE IF ~isPowerCard(firstDiscard)
    THEN Ok([g EXCEPT !.discardPile = Append(@, firstDiscard)])
    ELSE IF n >= DeckSize THEN Hung(g)
    ELSE LET g1 == [g EXCEPT !.deck = Shuffle(<<firstDiscard>> \o g.deck, seed + n)]
             d == drawCard(g1, seed)
         IN  FirstDiscard(d.g, d.card, seed, n + 1)

\* Mutant of startRoundWith: the first card drawn is discarded whatever it is.
startRoundWith_anyFirstDiscard(g, fresh, seed) ==
    IF Len(g.players) < 2 THEN Fail(g, "players")
    ELSE LET g1 == [g EXCEPT !.deck = Shuffle(fresh, seed),
                             !.discardPile = <<>>,
                             !.roundEnded = FALSE,
                             !.knockerId = NoId,
                             !.finalRoundActive = FALSE,
                             !.playersCompletedFinalTurn = 0]
             g2 == Deal(g1, 1, seed)
             d == drawCard(g2, seed)
         IN  IF ~Truthy(d.card) THEN Threw(d.g)
             ELSE Ok([d.g EXCEPT !.discardPile = Append(@, d.card),
                                 !.currentPlayerIndex = 0,
                                 !.gameStarted = TRUE])

\* startRound, with fresh the deck initializeDeck builds (before its shuffle).
startRoundWith(g, fresh, seed) ==
    IF Len(g.players) < 2 THEN Fail(g, "players")
    ELSE LET g1 == [g EXCEPT !.deck = Shuffle(fresh, seed),
                             !.discardPile = <<>>,
                             !.roundEnded = FALSE,
                             !.knockerId = NoId,
                             !.finalRoundActive = FALSE,
                             !.playersCompletedFinalTurn = 0]
             g2 == Deal(g1, 1, seed)
             d == drawCard(g2, seed)
             r == FirstDiscard(d.g, d.card, seed, 0)
         IN  IF r.outcome # "returned" THEN r
             ELSE Ok([r.g EXCEPT !.currentPlayerIndex = 0,
                                 !.gameStarted = TRUE])

startRound(g, seed) == startRoundWith(g, BuildDeck, seed)

\* ============ KNOCKING & ROUND END (helpers of the turn actions) ============

\* The while loop of endRound for slot i (0-based) of player p (1-based).
RECURSIVE SweepSlot(_, _, _, _)
SweepSlot(g, p, i, seed) ==
    IF ~isPowerCard(g.players[p].hand[i + 1]) THEN g
    ELSE LET d == drawCard(g, seed)
         IN  IF Truthy(d.card) /\ d.card.type = "number"
             THEN [d.g EXCEPT !.players[p].hand[i + 1] = d.card,
                              !.players[p].knownCards[i + 1] = TRUE]
             ELSE IF Truthy(d.card) /\ isPowerCard(d.card)
             THEN SweepSlot(d.g, p, i, seed)
             ELSE d.g

\* The for loop of endRound over the slots of player p, from slot i on.
RECURSIVE SweepHand(_, _, _, _)
SweepHand(g, p, i, seed) ==
    IF i >= Len(g.players[p].hand) THEN g
    ELSE SweepHand(SweepSlot(g, p, i, seed), p, i + 1, seed)

\* players.forEach of endRound, from player p on.
RECURSIVE SweepAndScore(_, _, _)
SweepAndScore(g, p, seed) ==
    IF p > Len(g.players) THEN g
    ELSE LET g1 == SweepHand(g, p, 0, seed)
             pl == calculateScore(g1.players[p])
         IN  SweepAndScore(
                 [g1 EXCEPT !.players[p] =
                                [pl EXCEPT !.totalScore = @ + pl.score]],
                 p + 1, seed)

\* Mutant of endRound: the knocker is forgotten when the round ends.
endRound_clearsKnocker(g, seed) ==
    [SweepAndScore(g, 1, seed) EXCEPT !.roundEnded = TRUE,
                                      !.knockerId = NoId]

endRound(g, seed) ==
    [SweepAndScore(g, 1, seed) EXCEPT !.roundEnded = TRUE]

\* The do-while of endTurn from index idx: the index it stops at.  It is
\* entered with playersCompletedFinalTurn < players.length - 1 whenever the
\* final round is active, so there are two players or more and one of them
\* is not the knocker.
RECURSIVE AdvanceTurn(_, _)
AdvanceTurn(g, idx) ==
    LET next == (idx + 1) % Len(g.players)
    IN  IF g.finalRoundActive /\ g.players[next + 1].id = g.knockerId
        THEN AdvanceTurn(g, next)
        ELSE next

\* Mutant of endTurn: the round ends one final turn late (> for >=).
endTurn_late(g, seed) ==
    LET g1 == [g EXCEPT !.drawnCard = NullCard, !.drawnFromDiscard = FALSE]
        g2 == IF g1.finalRoundActive
              THEN [g1 EXCEPT !.playersCompletedFinalTurn = @ + 1]
              ELSE g1
    IN  IF g2.finalRoundActive
           /\ g2.playersCompletedFinalTurn > Len(g2.players) - 1
        THEN endRound(g2, seed)
        ELSE [g2 EXCEPT !.currentPlayerIndex =
                            AdvanceTurn(g2, g2.currentPlayerIndex)]

\* Mutant of endTurn: the turn pointer is not advanced.
endTurn_stays(g, seed) ==
    LET g1 == [g EXCEPT !.drawnCard = NullCard, !.drawnFromDiscard = FALSE]
        g2 == IF g1.finalRoundActive
              THEN [g1 EXCEPT !.playersCompletedFinalTurn = @ + 1]
              ELSE g1
    IN  IF g2.finalRoundActive
           /\ g2.playersCompletedFinalTurn >= Len(g2.players) - 1
        THEN endRound(g2, seed)
        ELSE g2

endTurn(g, seed) ==
    LET g1 == [g EXCEPT !.drawnCard = NullCard, !.drawnFromDiscard = FALSE]
        g2 == IF g1.finalRoundActive
              THEN [g1 EXCEPT !.playersCompletedFinalTurn = @ + 1]
              ELSE g1
    IN  IF g2.finalRoundActive
           /\ g2.playersCompletedFinalTurn >= Len(g2.players) - 1
        THEN endRound(g2, seed)
        ELSE [g2 EXCEPT !.currentPlayerIndex =
                            AdvanceTurn(g2, g2.currentPlayerIndex)]

\* ============ TURN ACTIONS ============

ValidIndex(hand, cardIndex) == cardIndex >= 0 /\ cardIndex < Len(hand)

drawFromDiscardPile(g) ==
    IF Truthy(g.drawnCard) THEN Fail(g, "Already drawn a card this turn")
    ELSE IF Len(g.discardPile) = 0 THEN Fail(g, "Discard pile empty")
    ELSE LET card == Last(g.discardPile)
             popped == [g EXCEPT !.discardPile = Front(@)]
         IN  IF ~Truthy(card) THEN Threw(popped)
             ELSE IF isPowerCard(card)
             THEN Fail([popped EXCEPT !.discardPile = Append(@, card)],
                       "Cannot draw power cards from discard pile")
             ELSE OkCard([popped EXCEPT !.drawnCard = card,
                                        !.drawnFromDiscard = TRUE],
                         card, "mustUse")

drawFromDeck(g, seed) ==
    IF Truthy(g.drawnCard) THEN Fail(g, "Already drawn a card this turn")
    ELSE LET d == drawCard(g, seed)
         IN  IF ~Truthy(d.card) THEN Fail(d.g, "Deck is empty")
             ELSE OkCard([d.g EXCEPT !.drawnCard = d.card,
                                     !.drawnFromDiscard = FALSE],
                         d.card, "")

\* Mutant of replaceCardInHand: the pending card goes to the discard pile
\* and the slot keeps its card.
replaceCardInHand_discards(g, cardIndex, seed) ==
    IF ~Truthy(g.drawnCard) THEN Fail(g, "No card drawn")
    ELSE IF ~HasCurrentPlayer(g) THEN Threw(g)
    ELSE LET p == g.currentPlayerIndex + 1
             player == g.players[p]
         IN  IF ~ValidIndex(player.hand, cardIndex)
             THEN Fail(g, "Invalid card index")
             ELSE LET g1 == [g EXCEPT
                               !.discardPile = Append(@, g.drawnCard),
                               !.drawnCard = NullCard,
                               !.drawnFromDiscard = FALSE]
                  IN  Ok(endTurn(g1, seed))

replaceCardInHand(g, cardIndex, seed) ==
    IF ~Truthy(g.drawnCard) THEN Fail(g, "No card drawn")
    ELSE IF ~HasCurrentPlayer(g) THEN Threw(g)
    ELSE LET p == g.currentPlayerIndex + 1
             player == g.players[p]
         IN  IF ~ValidIndex(player.hand, cardIndex)
             THEN Fail(g, "Invalid card index")
             ELSE LET replacedCard == player.hand[cardIndex + 1]
                      g1 == [g EXCEPT
                               !.players[p] = replaceCard(player, cardIndex, g.drawnCard),
                               !.discardPile = Append(@, replacedCard),
                               !.drawnCard = NullCard,
                               !.drawnFromDiscard = FALSE]
                  IN  Ok(endTurn(g1, seed))

\* Mutant of discardDrawnCard: the source of the pending card is not checked.
discardDrawnCard_anySource(g, seed) ==
    IF ~Truthy(g.drawnCard) THEN Fail(g, "No card drawn")
    ELSE Ok(endTurn([g EXCEPT !.discardPile = Append(@, g.drawnCard),
                              !.drawnCard = NullCard], seed))

discardDrawnCard(g, seed) ==
    IF ~Truthy(g.drawnCard) THEN Fail(g, "No card drawn")
    ELSE IF g.drawnFromDiscard
    THEN Fail(g, "Cannot discard card from discard pile")
    ELSE Ok(endTurn([g EXCEPT !.discardPile = Append(@, g.drawnCard),
                              !.drawnCard = NullCard], seed))

\* ============ POWER CARD ACTIONS ============

\* The three statements that end usePeek, useSwap, declineSwap, useAddCard:
\* the pending card goes to the discard pile and the pending state is reset.
DiscardPending(g) ==
    [g EXCEPT !.discardPile = Append(@, g.drawnCard),
              !.drawnCard = NullCard,
              !.drawnFromDiscard = FALSE]

\* Mutant of usePeek: the peeked slot is marked known (Player.peekAtCard).
usePeek_marksKnown(g, cardIndex, seed) ==
    IF ~Truthy(g.drawnCard) \/ g.drawnCard.type # "peek"
    THEN Fail(g, "No peek card drawn")
    ELSE IF ~HasCurrentPlayer(g) THEN Threw(g)
    ELSE LET player == getCurrentPlayer(g)
             p == g.currentPlayerIndex + 1
         IN  IF ~ValidIndex(player.hand, cardIndex)
             THEN Fail(g, "Invalid card index")
             ELSE OkCard(endTurn(DiscardPending(
                             [g EXCEPT !.players[p].knownCards[cardIndex + 1]
                                           = TRUE]), seed),
                         player.hand[cardIndex + 1], "revealedCard")

usePeek(g, cardIndex, seed) ==
    IF ~Truthy(g.drawnCard) \/ g.drawnCard.type # "peek"
    THEN Fail(g, "No peek card drawn")
    ELSE IF ~HasCurrentPlayer(g) THEN Threw(g)
    ELSE LET player == getCurrentPlayer(g)
         IN  IF ~ValidIndex(player.hand, cardIndex)
             THEN Fail(g, "Invalid card index")
             ELSE OkCard(endTurn(DiscardPending(g), seed),
                         player.hand[cardIndex + 1], "revealedCard")

\* Mutant of useSwap: the opponent's slot keeps its card.
useSwap_oneWay(g, myCardIndex, opponentId, opponentCardIndex, seed) ==
    IF ~Truthy(g.drawnCard) \/ g.drawnCard.type # "swap"
    THEN Fail(g, "No swap card drawn")
    ELSE LET o == FindPlayer(g, opponentId)
             p == g.currentPlayerIndex + 1
         IN  IF o = 0 THEN Fail(g, "Invalid opponent")
             ELSE IF ~HasCurrentPlayer(g) THEN Threw(g)
             ELSE IF g.players[o].id = g.players[p].id
             THEN Fail(g, "Cannot swap with yourself")
             ELSE IF ~ValidIndex(g.players[p].hand, myCardIndex)
             THEN Fail(g, "Invalid your card index")
             ELSE IF ~ValidIndex(g.players[o].hand, opponentCardIndex)
             THEN Fail(g, "Invalid opponent card index")
             ELSE LET theirCard == g.players[o].hand[opponentCardIndex + 1]
                      g1 == [g EXCEPT
                               !.players[p].hand[myCardIndex + 1] = theirCard,
                               !.players[p].knownCards[myCardIndex + 1] = FALSE,
                               !.players[o].knownCards[opponentCardIndex + 1] = FALSE]
                  IN  Result(endTurn(DiscardPending(g1), seed), TRUE, "",
                             NullCard, "swappedWith", "returned")

\* Mutant of useSwap: the indexes are validated before the self-target test.
useSwap_selfAfterIndexes(g, myCardIndex, opponentId, opponentCardIndex, seed) ==
    IF ~Truthy(g.drawnCard) \/ g.drawnCard.type # "swap"
    THEN Fail(g, "No swap card drawn")
    ELSE LET o == FindPlayer(g, opponentId)
             p == g.currentPlayerIndex + 1
         IN  IF o = 0 THEN Fail(g, "Invalid opponent")
             ELSE IF ~HasCurrentPlayer(g) THEN Threw(g)
             ELSE IF ~ValidIndex(g.players[p].hand, myCardIndex)
             THEN Fail(g, "Invalid your card index")
             ELSE IF ~ValidIndex(g.players[o].hand, opponentCardIndex)
             THEN Fail(g, "Invalid opponent card index")
             ELSE IF g.players[o].id = g.players[p].id
             THEN Fail(g, "Cannot swap with yourself")
             ELSE LET myCard == g.players[p].hand[myCardIndex + 1]
                      theirCard == g.players[o].hand[opponentCardIndex + 1]
                      g1 == [g EXCEPT
                               !.players[p].hand[myCardIndex + 1] = theirCard,
                               !.players[o].hand[opponentCardIndex + 1] = myCard,
                               !.players[p].knownCards[myCardIndex + 1] = FALSE,
                               !.players[o].knownCards[opponentCardIndex + 1] = FALSE]
                  IN  Result(endTurn(DiscardPending(g1), seed), TRUE, "",
                             NullCard, "swappedWith", "returned")

useSwap(g, myCardIndex, opponentId, opponentCardIndex, seed) ==
    IF ~Truthy(g.drawnCard) \/ g.drawnCard.type # "swap"
    THEN Fail(g, "No swap card drawn")
    ELSE LET o == FindPlayer(g, opponentId)
             p == g.currentPlayerIndex + 1
         IN  IF o = 0 THEN Fail(g, "Invalid opponent")
             ELSE IF ~HasCurrentPlayer(g) THEN Threw(g)
             ELSE IF g.players[o].id = g.players[p].id
             THEN Fail(g, "Cannot swap with yourself")
             ELSE IF ~ValidIndex(g.players[p].hand, myCardIndex)
             THEN Fail(g, "Invalid your card index")
             ELSE IF ~ValidIndex(g.players[o].hand, opponentCardIndex)
             THEN Fail(g, "Invalid opponent card index")
             ELSE LET myCard == g.players[p].hand[myCardIndex + 1]
                      theirCard == g.players[o].hand[opponentCardIndex + 1]
                      g1 == [g EXCEPT
                               !.players[p].hand[myCardIndex + 1] = theirCard,
                               !.players[o].hand[opponentCardIndex + 1] = myCard,
                               !.players[p].knownCards[myCardIndex + 1] = FALSE,
                               !.players[o].knownCards[opponentCardIndex + 1] = FALSE]
                  IN  Result(endTurn(DiscardPending(g1), seed), TRUE, "",
                             NullCard, "swappedWith", "returned")

\* Mutant of declineSwap: the Swap card is dropped instead of discarded.
declineSwap_dropsCard(g, seed) ==
    IF ~Truthy(g.drawnCard) \/ g.drawnCard.type # "swap"
    THEN Fail(g, "No swap card drawn")
    ELSE Ok(endTurn(g, seed))

\* Mutant of declineSwap: any pending card can be declined.
declineSwap_anyCard(g, seed) ==
    IF ~Truthy(g.drawnCard)
    THEN Fail(g, "No swap card drawn")
    ELSE Ok(endTurn(DiscardPending(g), seed))

declineSwap(g, seed) ==
    IF ~Truthy(g.drawnCard) \/ g.drawnCard.type # "swap"
    THEN Fail(g, "No swap card drawn")
    ELSE Ok(endTurn(DiscardPending(g), seed))

\* The tail shared by useDraw2 and handleDraw2Card: card was just drawn
\* inside the chain and is not null.
\* Mutant of ChainDrawn: a chained Draw-Two adds two draws to those left.
ChainDrawn_addsBudget(g, card, seed) ==
    IF card.type = "draw2"
    THEN LET g1 == [g EXCEPT !.discardPile = Append(@, card),
                             !.drawnCard = NullCard,
                             !.draw2CardsRemaining = @ + Draw2Budget]
             d == drawCard(g1, seed)
         IN  OkCard([d.g EXCEPT !.drawnCard = d.card], d.card, "chaining")
    ELSE OkCard([g EXCEPT !.drawnCard = card], card, "cardsRemaining")

ChainDrawn(g, card, seed) ==
    IF card.type = "draw2"
    THEN LET g1 == [g EXCEPT !.discardPile = Append(@, card),
                             !.drawnCard = NullCard,
                             !.draw2CardsRemaining = Draw2Budget]
             d == drawCard(g1, seed)
         IN  OkCard([d.g EXCEPT !.drawnCard = d.card], d.card, "chaining")
    ELSE OkCard([g EXCEPT !.drawnCard = card], card, "cardsRemaining")

useDraw2(g, seed) ==
    IF ~Truthy(g.drawnCard) \/ g.drawnCard.type # "draw2"
    THEN Fail(g, "No draw2 card drawn")
    ELSE LET g1 == [g EXCEPT !.discardPile = Append(@, g.drawnCard),
                             !.drawnCard = NullCard,
                             !.draw2ChainActive = TRUE,
                             !.draw2CardsRemaining = Draw2Budget]
             d == drawCard(g1, seed)
         IN  IF ~Truthy(d.card)
             THEN Fail(endTurn([d.g EXCEPT !.draw2ChainActive = FALSE], seed),
                       "Deck empty")
             ELSE ChainDrawn(d.g, d.card, seed)

NoIndex == 0 - 2

\* Mutant of handleDraw2Card: 'discard' does not decrement the counter.
handleDraw2Card_noDecrement(g, action, cardIndex, seed) ==
    IF ~g.draw2ChainActive THEN Fail(g, "No Draw 2 active")
    ELSE IF action = "use" /\ cardIndex # NoIndex
    THEN LET result == replaceCardInHand(g, cardIndex, seed)
         IN  IF result.success
             THEN [result EXCEPT !.g.draw2ChainActive = FALSE,
                                 !.g.draw2CardsRemaining = 0]
             ELSE result
    ELSE IF action = "discard"
    THEN LET g1 == [g EXCEPT !.discardPile = Append(@, g.drawnCard),
                             !.drawnCard = NullCard]
         IN  IF g1.draw2CardsRemaining > 0
             THEN LET d == drawCard(g1, seed)
                  IN  IF ~Truthy(d.card)
                      THEN Fail(endTurn([d.g EXCEPT !.draw2ChainActive = FALSE],
                                        seed),
                                "Deck empty")
                      ELSE ChainDrawn(d.g, d.card, seed)
             ELSE OkCard(endTurn([g1 EXCEPT !.draw2ChainActive = FALSE], seed),
                         NullCard, "draw2Complete")
    ELSE Fail(g, "Invalid action")

handleDraw2Card(g, action, cardIndex, seed) ==
    IF ~g.draw2ChainActive THEN Fail(g, "No Draw 2 active")
    ELSE IF action = "use" /\ cardIndex # NoIndex
    THEN LET result == replaceCardInHand(g, cardIndex, seed)
         IN  IF result.success
             THEN [result EXCEPT !.g.draw2ChainActive = FALSE,
                                 !.g.draw2CardsRemaining = 0]
             ELSE result
    ELSE IF action = "discard"
    THEN LET g1 == [g EXCEPT !.discardPile = Append(@, g.drawnCard),
                             !.drawnCard = NullCard,
                             !.draw2CardsRemaining = @ - 1]
         IN  IF g1.draw2CardsRemaining > 0
             THEN LET d == drawCard(g1, seed)
                  IN  IF ~Truthy(d.card)
                      THEN Fail(endTurn([d.g EXCEPT !.draw2ChainActive = FALSE],
                                        seed),
                                "Deck empty")
                      ELSE ChainDrawn(d.g, d.card, seed)
             ELSE OkCard(endTurn([g1 EXCEPT !.draw2ChainActive = FALSE], seed),
                         NullCard, "draw2Complete")
    ELSE Fail(g, "Invalid action")

\* Mutant of useAddCard: the Add-Card card is not pushed to the discard pile.
useAddCard_noDiscard(g, seed) ==
    IF ~Truthy(g.drawnCard) \/ g.drawnCard.type # "addcard"
    THEN Fail(g, "No addcard drawn")
    ELSE IF ~HasCurrentPlayer(g) THEN Threw(g)
    ELSE LET p == g.currentPlayerIndex + 1
             d == drawCard(g, seed)
             g1 == IF Truthy(d.card)
                   THEN [d.g EXCEPT !.players[p] = addCard(@, d.card)]
                   ELSE d.g
         IN  OkCard(endTurn(g1, seed), d.card, "addedCard")

useAddCard(g, seed) ==
    IF ~Truthy(g.drawnCard) \/ g.drawnCard.type # "addcard"
    THEN Fail(g, "No addcard drawn")
    ELSE IF ~HasCurrentPlayer(g) THEN Threw(g)
    ELSE LET p == g.currentPlayerIndex + 1
             d == drawCard(g, seed)
             g1 == IF Truthy(d.card)
                   THEN [d.g EXCEPT !.players[p] = addCard(@, d.card)]
                   ELSE d.g
         IN  OkCard(endTurn(DiscardPending(g1), seed), d.card, "addedCard")

\* ============ KNOCKING ============

\* The do-while of knock from index idx; n counts the iterations.  When every
\* player is the knocker (a match of one) the loop never exits: 0 - 1.
RECURSIVE KnockAdvance(_, _, _)
KnockAdvance(g, idx, n) ==
    LET next == (idx + 1) % Len(g.players)
    IN  IF g.players[next + 1].id = g.knockerId
        THEN IF n >= Len(g.players) THEN 0 - 1
             ELSE KnockAdvance(g, next, n + 1)
        ELSE next

\* Mutant of knock: a knock is accepted after another one.
knock_again(g) ==
    IF ~HasCurrentPlayer(g) THEN Threw(g)
    ELSE LET g1 == [g EXCEPT !.knockerId = getCurrentPlayer(g).id,
                             !.finalRoundActive = TRUE,
                             !.playersCompletedFinalTurn = 0,
                             !.drawnCard = NullCard,
                             !.drawnFromDiscard = FALSE]
             next == KnockAdvance(g1, g1.currentPlayerIndex, 0)
         IN  IF next < 0 THEN Hung(g1)
             ELSE Ok([g1 EXCEPT !.currentPlayerIndex = next])

knock(g) ==
    IF g.knockerId # NoId THEN Fail(g, "Someone already knocked")
    ELSE IF ~HasCurrentPlayer(g) THEN Threw(g)
    ELSE LET g1 == [g EXCEPT !.knockerId = getCurrentPlayer(g).id,
                             !.finalRoundActive = TRUE,
                             !.playersCompletedFinalTurn = 0,
                             !.drawnCard = NullCard,
                             !.drawnFromDiscard = FALSE]
             next == KnockAdvance(g1, g1.currentPlayerIndex, 0)
         IN  IF next < 0 THEN Hung(g1)
             ELSE Ok([g1 EXCEPT !.currentPlayerIndex = next])

\* ============ STATE PROJECTION ============

HiddenCard == Card("hidden", NoValue)

\* score: null
NoScore == 0 - 1

\* The hand of player p as getGameState maps it: with own = TRUE the way
\* the requesting player's own hand is mapped, otherwise the way every other
\* hand is.
HandView(g, p, own) ==
    IF own
    THEN [idx \in 1..Len(p.hand) |->
            LET isOuter == idx - 1 = 0 \/ idx - 1 = Len(p.hand) - 1
            IN  [card |-> IF g.roundEnded \/ p.knownCards[idx] \/ isOuter
                          THEN p.hand[idx] ELSE HiddenCard,
                 isKnown |-> g.roundEnded \/ p.knownCards[idx],
                 isOuter |-> isOuter]]
    ELSE [idx \in 1..Len(p.hand) |->
            [card |-> IF g.roundEnded THEN p.hand[idx] ELSE HiddenCard,
             isKnown |-> g.roundEnded,
             isOuter |-> FALSE]]

\* Mutant of PlayerView: every hand is mapped as the requester's own.
PlayerView_asOwner(g, p, playerId) ==
    [id |-> p.id,
     handSize |-> Len(p.hand),
     hand |-> HandView(g, p, TRUE),
     score |-> IF g.roundEnded THEN p.score ELSE NoScore,
     totalScore |-> p.totalScore]

\* One entry of players.map in getGameState: player p as shown to playerId.
PlayerView(g, p, playerId) ==
    [id |-> p.id,
     handSize |-> Len(p.hand),
     hand |-> HandView(g, p, p.id = playerId),
     score |-> IF g.roundEnded THEN p.score ELSE NoScore,
     totalScore |-> p.totalScore]

getGameState(g, playerId) ==
    [players |-> [k \in 1..Len(g.players) |-> PlayerView(g, g.players[k], playerId)],
     currentPlayerId |-> CurrentPlayerId(g),
     isMyTurn |-> CurrentPlayerId(g) = playerId,
     discardTop |-> IF Len(g.discardPile) > 0 THEN Last(g.discardPile) ELSE NullCard,
     deckSize |-> Len(g.deck),
     drawnCard |-> IF CurrentPlayerId(g) = playerId THEN g.drawnCard ELSE NullCard,
     drawnFromDiscard |-> g.drawnFromDiscard,
     draw2Active |-> g.draw2ChainActive,
     draw2Remaining |-> g.draw2CardsRemaining,
     gameStarted |-> g.gameStarted,
     roundEnded |-> g.roundEnded,
     knockerId |-> g.knockerId,
     finalRoundActive |-> g.finalRoundActive]

----------------------------------------------------------------------------
\* The state machine: one action per method of the engine.

Seeds == 0..MaxSeed

\* cardIndex values a caller sends: the slots 0..MaxCardIndex, and one index
\* on either side of any hand the model reaches.
CardIndexes == ((0 - 1)..MaxCardIndex) \cup {DeckSize}

\* opponentId values: the ids of the match and one that is nobody's.
OpponentIds == PlayerIds \cup {NumIds + 1}

\* The ids of the match in turn order.
Ids(g) == [k \in 1..Len(g.players) |-> g.players[k].id]

NoFinal == [ids |-> <<>>, turns |-> <<>>]

NoCall == [op |-> "new", success |-> TRUE, info |-> "", outcome |-> "returned"]

Init ==
    /\ players = NewGame.players
    /\ deck = NewGame.deck
    /\ discardPile = NewGame.discardPile
    /\ currentPlayerIndex = NewGame.currentPlayerIndex
    /\ drawnCard = NewGame.drawnCard
    /\ drawnFromDiscard = NewGame.drawnFromDiscard
    /\ gameStarted = NewGame.gameStarted
    /\ roundEnded = NewGame.roundEnded
    /\ knockerId = NewGame.knockerId
    /\ finalRoundActive = NewGame.finalRoundActive
    /\ playersCompletedFinalTurn = NewGame.playersCompletedFinalTurn
    /\ draw2ChainActive = NewGame.draw2ChainActive
    /\ draw2CardsRemaining = NewGame.draw2CardsRemaining
    /\ rng = 0
    /\ last = NoCall
    /\ steps = 0
    /\ rounds = 0
    /\ removals = 0
    /\ final = NoFinal

\* The call op, ended as r, ended the caller's turn (it ran endTurn): a
\* successful terminal action, or a Draw-Two draw that found no card.
TurnEnded(op, r) ==
    /\ r.outcome = "returned"
    /\ \/ /\ r.success
          /\ op \in {"replaceCardInHand", "discardDrawnCard", "usePeek",
                     "useSwap", "declineSwap", "useAddCard"}
       \/ /\ r.success
          /\ op = "handleDraw2Card"
          /\ r.info \in {"", "draw2Complete"}
       \/ /\ ~r.success
          /\ op \in {"useDraw2", "handleDraw2Card"}
          /\ r.error = "Deck empty"

\* The call op ended as r.  A call that returns and leaves the object as it
\* was is a stuttering step; any other call is recorded in last.
Apply(op, r, seed) ==
    /\ r.outcome # "returned" \/ r.g # Game
    /\ steps < MaxSteps
    /\ players' = r.g.players
    /\ deck' = r.g.deck
    /\ discardPile' = r.g.discardPile
    /\ currentPlayerIndex' = r.g.currentPlayerIndex
    /\ drawnCard' = r.g.drawnCard
    /\ drawnFromDiscard' = r.g.drawnFromDiscard
    /\ gameStarted' = r.g.gameStarted
    /\ roundEnded' = r.g.roundEnded
    /\ knockerId' = r.g.knockerId
    /\ finalRoundActive' = r.g.finalRoundActive
    /\ playersCompletedFinalTurn' = r.g.playersCompletedFinalTurn
    /\ draw2ChainActive' = r.g.draw2ChainActive
    /\ draw2CardsRemaining' = r.g.draw2CardsRemaining
    /\ rng' = seed
    /\ last' = [op |-> op, success |-> r.success, info |-> r.info,
                outcome |-> r.outcome]
    /\ steps' = steps + 1
    /\ rounds' = IF op = "startRound" THEN rounds + 1 ELSE rounds
    /\ removals' = IF op = "removePlayer" THEN removals + 1 ELSE removals
    /\ final' = IF op = "startRound" THEN NoFinal
                ELSE IF op = "knock" /\ r.success
                THEN [ids |-> Ids(Game), turns |-> <<>>]
                ELSE IF TurnEnded(op, r) /\ knockerId # NoId
                THEN [final EXCEPT !.turns = Append(@, CurrentPlayerId(Game))]
                ELSE final

\* The process serves calls while no call has thrown or hung.
Running == last.outcome = "returned"

\* The server calls the turn methods for the current player only
\* (isPlayerTurn), and deletes a match that has no players left.
Live == Running /\ Len(players) > 0

\* createGame / joinGame: socket ids are unique, the next unused one joins.
AddPlayer ==
    /\ Running
    /\ \E id \in PlayerIds :
        /\ ~HasPlayer(Game, id)
        /\ \A other \in PlayerIds : other < id => HasPlayer(Game, other)
        /\ Apply("addPlayer", addPlayer(Game, id), rng)

RemovePlayer ==
    /\ Live
    /\ removals < MaxRemovals
    /\ \E id \in PlayerIds :
        /\ HasPlayer(Game, id)
        /\ Apply("removePlayer", removePlayer(Game, id), rng)

\* startRound seeds the random stream of the round.
StartRound ==
    /\ Live
    /\ rounds < MaxRounds
    /\ \E seed \in Seeds :
        LET r == startRound(Game, seed)
        IN  r.outcome = "returned" /\ Apply("startRound", r, seed)

DrawFromDeck ==
    Live /\ Apply("drawFromDeck", drawFromDeck(Game, rng), rng)

DrawFromDiscardPile ==
    Live /\ Apply("drawFromDiscardPile", drawFromDiscardPile(Game), rng)

ReplaceCardInHand ==
    Live /\ \E k \in CardIndexes :
                Apply("replaceCardInHand", replaceCardInHand(Game, k, rng), rng)

DiscardDrawnCard ==
    Live /\ Apply("discardDrawnCard", discardDrawnCard(Game, rng), rng)

UsePeek ==
    Live /\ \E k \in CardIndexes : Apply("usePeek", usePeek(Game, k, rng), rng)

UseSwap ==
    Live /\ \E i \in CardIndexes, opp \in OpponentIds, j \in CardIndexes :
                Apply("useSwap", useSwap(Game, i, opp, j, rng), rng)

DeclineSwap ==
    Live /\ Apply("declineSwap", declineSwap(Game, rng), rng)

UseDraw2 ==
    Live /\ Apply("useDraw2", useDraw2(Game, rng), rng)

HandleDraw2Card ==
    Live /\ \E action \in {"use", "discard", "keep"},
               k \in CardIndexes \cup {NoIndex} :
                Apply("handleDraw2Card", handleDraw2Card(Game, action, k, rng), rng)

UseAddCard ==
    Live /\ Apply("useAddCard", useAddCard(Game, rng), rng)

Knock ==
    Live /\ Apply("knock", knock(Game), rng)

Next ==
    \/ AddPlayer
    \/ RemovePlayer
    \/ StartRound
    \/ DrawFromDeck
    \/ DrawFromDiscardPile
    \/ ReplaceCardInHand
    \/ DiscardDrawnCard
    \/ UsePeek
    \/ UseSwap
    \/ DeclineSwap
    \/ UseDraw2
    \/ HandleDraw2Card
    \/ UseAddCard
    \/ Knock

Spec == Init /\ [][Next]_vars

\* The lobby after new RatATatCatGame(), addPlayer(1), addPlayer(2).
TwoJoined == addPlayer(addPlayer(NewGame, 1).g, 2).g

InitOfTwo ==
    /\ players = TwoJoined.players
    /\ deck = TwoJoined.deck
    /\ discardPile = TwoJoined.discardPile
    /\ currentPlayerIndex = TwoJoined.currentPlayerIndex
    /\ drawnCard = TwoJoined.drawnCard
    /\ drawnFromDiscard = TwoJoined.drawnFromDiscard
    /\ gameStarted = TwoJoined.gameStarted
    /\ roundEnded = TwoJoined.roundEnded
    /\ knockerId = TwoJoined.knockerId
    /\ finalRoundActive = TwoJoined.finalRoundActive
    /\ playersCompletedFinalTurn = TwoJoined.playersCompletedFinalTurn
    /\ draw2ChainActive = TwoJoined.draw2ChainActive
    /\ draw2CardsRemaining = TwoJoined.draw2CardsRemaining
    /\ rng = 0
    /\ last = [op |-> "addPlayer", success |-> TRUE, info |-> "",
               outcome |-> "returned"]
    /\ steps = 0
    /\ rounds = 0
    /\ removals = 0
    /\ final = NoFinal

\* The play of two players who stay: no one joins or leaves.
NextOfTwo ==
    \/ StartRound
    \/ DrawFromDeck
    \/ DrawFromDiscardPile
    \/ ReplaceCardInHand
    \/ DiscardDrawnCard
    \/ UsePeek
    \/ UseSwap
    \/ DeclineSwap
    \/ UseDraw2
    \/ HandleDraw2Card
    \/ UseAddCard
    \/ Knock

SpecOfTwo == InitOfTwo /\ [][NextOfTwo]_vars

----------------------------------------------------------------------------
\* Every call of a turn method a caller can make in the current state, with
\* what it produces: [op, r] for each method and each input.

TurnCalls ==
    {[op |-> "drawFromDeck", r |-> drawFromDeck(Game, rng)],
     [op |-> "drawFromDiscardPile", r |-> drawFromDiscardPile(Game)],
     [op |-> "discardDrawnCard", r |-> discardDrawnCard(Game, rng)],
     [op |-> "declineSwap", r |-> declineSwap(Game, rng)],
     [op |-> "useDraw2", r |-> useDraw2(Game, rng)],
     [op |-> "useAddCard", r |-> useAddCard(Game, rng)],
     [op |-> "knock", r |-> knock(Game)]}
    \cup {[op |-> "replaceCardInHand", r |-> replaceCardInHand(Game, k, rng)] :
            k \in CardIndexes}
    \cup {[op |-> "usePeek", r |-> usePeek(Game, k, rng)] : k \in CardIndexes}
    \cup {[op |-> "useSwap", r |-> useSwap(Game, i[1], i[2], i[3], rng)] :
            i \in CardIndexes \X OpponentIds \X CardIndexes}
    \cup {[op |-> "handleDraw2Card", r |-> handleDraw2Card(Game, a[1], a[2], rng)] :
            a \in {"use", "discard", "keep"} \X (CardIndexes \cup {NoIndex})}

\* The cards of all hands, player by player.
Hands(g) == [k \in 1..Len(g.players) |-> g.players[k].hand]

\* The known masks of all hands, player by player.
Masks(g) == [k \in 1..Len(g.players) |-> g.players[k].knownCards]

----------------------------------------------------------------------------
\* C1.  Card conservation: in every state of a started round, with no player
\* removed, |deck| + |discard| + the sizes of all hands equals the size of
\* the deck (56 in the program).  Stated for the states in which no card is
\* pending, where the three collections hold every card of the round.
CardConservation ==
    (gameStarted /\ Running /\ removals = 0 /\ ~Truthy(drawnCard))
        => Len(deck) + Len(discardPile) + SumLen(players) = DeckSize

----------------------------------------------------------------------------
\* C2.  Information hiding of the projection: before the round has ended,
\* getGameState(p) is the same for two match states that differ only in the
\* cards of the other players' hands, in the cards of the draw pile and,
\* when p is not the current player, in the pending card.

VariationCards == {NumberCard(0), NumberCard(9), PowerCard("peek")}

\* g with every card p cannot see replaced by c (pending card: by d).
Vary(g, playerId, c, d) ==
    [g EXCEPT
       !.players = [k \in 1..Len(g.players) |->
                      IF g.players[k].id = playerId THEN g.players[k]
                      ELSE [g.players[k] EXCEPT
                              !.hand = Repeat(c, Len(g.players[k].hand))]],
       !.deck = Repeat(c, Len(g.deck)),
       !.drawnCard = IF CurrentPlayerId(g) = playerId THEN g.drawnCard ELSE d]

InformationHiding ==
    ~roundEnded =>
        \A k \in 1..Len(players) :
            \A c \in VariationCards, d \in VariationCards \cup {NullCard} :
                getGameState(Game, players[k].id)
                    = getGameState(Vary(Game, players[k].id, c, d), players[k].id)

\* A round in progress with a card pending, seen by a player who is not the
\* current one and whose opponents hold cards.
InformationHidingWitness ==
    /\ gameStarted /\ ~roundEnded /\ Running
    /\ Truthy(drawnCard)
    /\ \E k \in 1..Len(players) :
        /\ players[k].id # CurrentPlayerId(Game)
        /\ getGameState(Game, players[k].id).drawnCard = NullCard
        /\ \E m \in 1..Len(players) :
            /\ m # k
            /\ Len(players[m].hand) = HandSize
            /\ \A idx \in 1..HandSize :
                getGameState(Game, players[k].id).players[m].hand[idx].card
                    = HiddenCard

----------------------------------------------------------------------------
\* C3.  Knock exclusion: after a successful knock(), until the next
\* startRound, the player at currentPlayerIndex is never the knocker.
\* Stated for a started round in which two players or more are in the match.
KnockExclusion ==
    (gameStarted /\ knockerId # NoId /\ Running /\ Len(players) >= 2)
        => CurrentPlayerId(Game) # knockerId

----------------------------------------------------------------------------
\* C4.  Final round: after a successful knock() in a match of n players (and
\* while these n players stay in the match), the turns that end are those of
\* the non-knocking players, one each, in turn order from the player after
\* the knocker, and roundEnded is true exactly from the end of the
\* (n - 1)-th of them.

\* The position (1-based) of id in the sequence ids.
PositionOf(ids, id) == CHOOSE k \in 1..Len(ids) : ids[k] = id

\* The id k seats after the knocker, in turn order.
AfterKnocker(ids, id, k) == ids[((PositionOf(ids, id) - 1 + k) % Len(ids)) + 1]

FinalRound ==
    (knockerId # NoId /\ Running /\ final.ids # <<>> /\ Ids(Game) = final.ids)
        => LET n == Len(final.ids)
           IN  /\ \A k \in 1..Len(final.turns) :
                    k <= n - 1 => final.turns[k] = AfterKnocker(final.ids, knockerId, k)
               /\ roundEnded <=> Len(final.turns) >= n - 1

\* A final round of three players that has run to its end.
FinalRoundWitness ==
    /\ roundEnded /\ Running
    /\ Len(final.ids) = 3 /\ Ids(Game) = final.ids
    /\ Len(final.turns) = 2
    /\ final.turns[1] # final.turns[2]
    /\ knockerId # final.turns[1] /\ knockerId # final.turns[2]

----------------------------------------------------------------------------
\* C5.  Turn monotonicity: every successful terminal action either leaves
\* roundEnded true or leaves currentPlayerIndex at a player other than the
\* one who acted.
TurnMonotonicity ==
    Live => \A c \in TurnCalls :
                (c.r.success /\ TurnEnded(c.op, c.r))
                    => \/ c.r.g.roundEnded
                       \/ CurrentPlayerId(c.r.g) # CurrentPlayerId(Game)

\* C5 as amended: the same, in a match that has two players or more.
TurnMonotonicityOfTwo ==
    (Live /\ Len(players) >= 2)
        => \A c \in TurnCalls :
                (c.r.success /\ TurnEnded(c.op, c.r))
                    => \/ c.r.g.roundEnded
                       \/ CurrentPlayerId(c.r.g) # CurrentPlayerId(Game)

\* A terminal action has just passed the turn to another player, in a match
\* of two or more.
TurnMonotonicityWitness ==
    /\ Live /\ Len(players) >= 2 /\ gameStarted /\ ~roundEnded
    /\ last.success
    /\ last.op \in {"replaceCardInHand", "discardDrawnCard", "usePeek",
                    "useSwap", "declineSwap", "useAddCard"}
    /\ currentPlayerIndex # 0

----------------------------------------------------------------------------
\* C6.  No partial application: every call of a turn method that returns
\* success = false leaves the whole match state unchanged.
NoPartialApplication ==
    Live => \A c \in TurnCalls :
                (c.r.outcome = "returned" /\ ~c.r.success) => c.r.g = Game

----------------------------------------------------------------------------
\* C7.  Swap symmetry: after useSwap(i, opp, j) succeeds, the acting player's
\* slot i holds the opponent's former card of slot j and the opponent's slot
\* j the acting player's former card of slot i, every other slot of every
\* hand is unchanged, and both known-mask entries are false.

SwapExchanged(g, h, i, opponentId, j) ==
    LET p == g.currentPlayerIndex + 1
        o == FindPlayer(g, opponentId)
    IN  /\ Ids(h) = Ids(g)
        /\ h.players[p].hand[i + 1] = g.players[o].hand[j + 1]
        /\ h.players[o].hand[j + 1] = g.players[p].hand[i + 1]
        /\ \A q \in 1..Len(g.players) :
            /\ Len(h.players[q].hand) = Len(g.players[q].hand)
            /\ \A k \in 1..Len(g.players[q].hand) :
                (<<q, k>> # <<p, i + 1>> /\ <<q, k>> # <<o, j + 1>>)
                    => h.players[q].hand[k] = g.players[q].hand[k]
        /\ h.players[p].knownCards[i + 1] = FALSE
        /\ h.players[o].knownCards[j + 1] = FALSE

SwapSymmetry ==
    Live => \A i, j \in CardIndexes, opp \in OpponentIds :
                LET r == useSwap(Game, i, opp, j, rng)
                IN  r.success => SwapExchanged(Game, r.g, i, opp, j)

\* C7 as amended: the same, for every successful useSwap that does not end
\* the round (the call that ends the round also runs the replacement sweep
\* of endRound, which rewrites the slots that hold power cards and marks
\* them known).
SwapSymmetryInRound ==
    Live => \A i, j \in CardIndexes, opp \in OpponentIds :
                LET r == useSwap(Game, i, opp, j, rng)
                IN  (r.success /\ ~r.g.roundEnded)
                        => SwapExchanged(Game, r.g, i, opp, j)

\* A swap has just succeeded in a round that goes on.
SwapSymmetryWitness ==
    /\ Live /\ gameStarted /\ ~roundEnded
    /\ last.op = "useSwap" /\ last.success
    /\ Last(discardPile) = PowerCard("swap")

----------------------------------------------------------------------------
\* C8.  Known-mask invariant: for every player the known mask is as long as
\* the hand, in every reachable state.
KnownMaskInvariant ==
    \A k \in 1..Len(players) :
        Len(players[k].knownCards) = Len(players[k].hand)

\* A hand has grown by Add-Card.
KnownMaskWitness ==
    /\ last.op = "useAddCard" /\ last.success
    /\ \E k \in 1..Len(players) :
        /\ Len(players[k].hand) = HandSize + 1
        /\ Len(players[k].knownCards) = HandSize + 1

----------------------------------------------------------------------------
\* C9.  Decline leaves hands untouched: whenever declineSwap() succeeds, all
\* hands are the same before and after, and only the discard pile (the Swap
\* card pushed), the pending card (cleared) and the turn pointer change.
DeclineFrame ==
    Live => LET r == declineSwap(Game, rng)
            IN  r.success
                    => /\ Hands(r.g) = Hands(Game)
                       /\ r.g = [Game EXCEPT
                                   !.discardPile = Append(@, Game.drawnCard),
                                   !.drawnCard = NullCard,
                                   !.currentPlayerIndex = r.g.currentPlayerIndex]

\* C9 as amended: whenever declineSwap() succeeds without ending the round,
\* all hands and known masks are the same before and after, and only the
\* discard pile (the Swap card pushed), the pending card (cleared, its source
\* flag reset), the turn pointer and, in the final round, the counter of
\* completed final turns change.
DeclineFrameInRound ==
    Live => LET r == declineSwap(Game, rng)
            IN  (r.success /\ ~r.g.roundEnded)
                    => /\ Hands(r.g) = Hands(Game)
                       /\ Masks(r.g) = Masks(Game)
                       /\ Last(r.g.discardPile) = PowerCard("swap")
                       /\ r.g = [Game EXCEPT
                                   !.discardPile = Append(@, Game.drawnCard),
                                   !.drawnCard = NullCard,
                                   !.drawnFromDiscard = FALSE,
                                   !.currentPlayerIndex = r.g.currentPlayerIndex,
                                   !.playersCompletedFinalTurn =
                                       IF Game.finalRoundActive THEN @ + 1 ELSE @]

\* A Swap card has just been declined in a round that goes on.
DeclineFrameWitness ==
    /\ Live /\ gameStarted /\ ~roundEnded
    /\ last.op = "declineSwap" /\ last.success
    /\ Last(discardPile) = PowerCard("swap")
    /\ ~Truthy(drawnCard)

----------------------------------------------------------------------------
\* C10.  Discard-from-discard restriction: right after a successful
\* drawFromDiscardPile(), discardDrawnCard() fails with 'Cannot discard card
\* from discard pile' and leaves the match state unchanged.
DiscardFromDiscardRestriction ==
    (last.op = "drawFromDiscardPile" /\ last.success)
        => LET r == discardDrawnCard(Game, rng)
           IN  /\ ~r.success
               /\ r.outcome = "returned"
               /\ r.error = "Cannot discard card from discard pile"
               /\ r.g = Game

\* A card has just been taken from the discard pile.
DiscardFromDiscardWitness ==
    /\ last.op = "drawFromDiscardPile" /\ last.success
    /\ drawnFromDiscard /\ Truthy(drawnCard)
    /\ ~discardDrawnCard(Game, rng).success

----------------------------------------------------------------------------
\* C11.  A card taken by a successful drawFromDiscardPile() must be used:
\* right after the draw, every call that changes the match state places that
\* card into the drawing player's hand through a replacement; the card is
\* never pushed back onto the discard pile and never dropped.

\* The number of slots of hand that hold card.
SlotsHolding(hand, card) == Cardinality({k \in 1..Len(hand) : hand[k] = card})

MustUseDiscardDraw ==
    (Live /\ last.op = "drawFromDiscardPile" /\ last.success)
        => \A c \in TurnCalls :
               c.r.outcome = "returned"
                   => \/ c.r.g = Game
                      \/ /\ c.op \in {"replaceCardInHand", "handleDraw2Card"}
                         /\ c.r.success
                         /\ c.r.g.drawnCard = NullCard
                         /\ LET p == currentPlayerIndex + 1
                            IN  SlotsHolding(c.r.g.players[p].hand, drawnCard)
                                  > SlotsHolding(players[p].hand, drawnCard)

----------------------------------------------------------------------------
\* C12.  Self-swap rejection: useSwap(i, selfId, j), with selfId the acting
\* player's own id, always fails with 'Cannot swap with yourself', for all i
\* and j, and leaves the pending card unchanged.
SelfSwapRejection ==
    (Live /\ gameStarted /\ ~roundEnded /\ Len(players) >= 2)
        => \A i, j \in CardIndexes :
                LET r == useSwap(Game, i, CurrentPlayerId(Game), j, rng)
                IN  /\ r.outcome = "returned"
                    /\ ~r.success
                    /\ r.error = "Cannot swap with yourself"
                    /\ r.g.drawnCard = drawnCard

\* C12 as amended: useSwap(i, selfId, j) always fails and leaves the pending
\* card (and the rest of the match state) unchanged, for all i and j; when a
\* Swap card is pending the error is 'Cannot swap with yourself'.
SelfSwapRejectionOfSwap ==
    Live => \A i, j \in CardIndexes :
                LET r == useSwap(Game, i, CurrentPlayerId(Game), j, rng)
                IN  /\ r.outcome = "returned"
                    /\ ~r.success
                    /\ r.g = Game
                    /\ (Truthy(drawnCard) /\ drawnCard.type = "swap")
                           => r.error = "Cannot swap with yourself"

\* A Swap card is pending in a started round, and the self-swap with valid
\* indexes is refused.
SelfSwapWitness ==
    /\ Live /\ gameStarted /\ ~roundEnded /\ Len(players) >= 2
    /\ drawnCard = PowerCard("swap")
    /\ useSwap(Game, 0, CurrentPlayerId(Game), 1, rng).error
           = "Cannot swap with yourself"

----------------------------------------------------------------------------
\* C13.  The Draw-Two chain stays scoped to the player who played the
\* Draw-Two card: whenever a call passes the turn to another player (a
\* terminal action or knock), draw2ChainActive is false afterwards.
ChainScoped ==
    (Live /\ Len(players) >= 2)
        => \A c \in TurnCalls :
               (/\ c.r.outcome = "returned"
                /\ CurrentPlayerId(c.r.g) # CurrentPlayerId(Game))
                   => ~c.r.g.draw2ChainActive

----------------------------------------------------------------------------
\* C14.  Deck exhaustion mid-chain: whenever a draw attempted inside a
\* Draw-Two chain (in useDraw2 or handleDraw2Card, the extra draw made right
\* after a chained Draw-Two is discarded included) yields no card, the chain
\* is abandoned (draw2ChainActive is false, no card is pending) and the turn
\* has ended.

\* The call that ended as r made a draw inside the chain that gave no card.
ChainDrawGaveNoCard(r) ==
    \/ ~r.success /\ r.error = "Deck empty"
    \/ r.success /\ r.info = "chaining" /\ r.card = NullCard

ChainExhaustion ==
    Live => \A c \in TurnCalls :
                (/\ c.op \in {"useDraw2", "handleDraw2Card"}
                 /\ c.r.outcome = "returned"
                 /\ ChainDrawGaveNoCard(c.r))
                    => /\ ~c.r.g.draw2ChainActive
                       /\ c.r.g.drawnCard = NullCard
                       /\ \/ c.r.g.roundEnded
                          \/ Len(players) < 2
                          \/ CurrentPlayerId(c.r.g) # CurrentPlayerId(Game)

\* The same for the draws whose failure the methods report ('Deck empty').
ChainExhaustionReported ==
    Live => \A c \in TurnCalls :
                (/\ c.op \in {"useDraw2", "handleDraw2Card"}
                 /\ c.r.outcome = "returned"
                 /\ ~c.r.success /\ c.r.error = "Deck empty")
                    => /\ ~c.r.g.draw2ChainActive
                       /\ c.r.g.drawnCard = NullCard
                       /\ \/ c.r.g.roundEnded
                          \/ Len(players) < 2
                          \/ CurrentPlayerId(c.r.g) # CurrentPlayerId(Game)

----------------------------------------------------------------------------
\* C15.  While a Draw-Two chain is active the pending card is never a
\* Draw-Two card: after every successful useDraw2 or handleDraw2Card that
\* leaves the chain active, the pending card is not a Draw-Two.
NoDraw2PendingInChain ==
    Live => \A c \in TurnCalls :
                (/\ c.op \in {"useDraw2", "handleDraw2Card"}
                 /\ c.r.outcome = "returned" /\ c.r.success
                 /\ c.r.g.draw2ChainActive)
                    => c.r.g.drawnCard.type # "draw2"

\* The same for the first card drawn in a step of the chain only (the card
\* the methods test).
FirstChainCardNotDraw2 ==
    Live => \A c \in TurnCalls :
                (/\ c.op \in {"useDraw2", "handleDraw2Card"}
                 /\ c.r.outcome = "returned" /\ c.r.success
                 /\ c.r.info = "cardsRemaining")
                    => c.r.g.drawnCard.type # "draw2"

----------------------------------------------------------------------------
\* C16.  Draw-Two chain scenario: with a Draw-Two card pending, a successful
\* useDraw2() leaves draw2ChainActive = true and draw2CardsRemaining = 2 with
\* the Draw-Two card on the discard pile; if the player then calls
\* handleDraw2Card('discard') twice and no further Draw-Two is drawn, the
\* chain is inactive after the second discard, no card is pending and the
\* turn has ended.

\* The turn of the player current in g has ended in h.
TurnHasEnded(g, h) ==
    \/ h.roundEnded
    \/ Len(g.players) < 2
    \/ CurrentPlayerId(h) # CurrentPlayerId(g)

\* useDraw2 succeeds on g and draws a card that is not a Draw-Two.
ChainOpens(g) ==
    LET r1 == useDraw2(g, rng)
    IN  r1.success /\ r1.info = "cardsRemaining"

\* After useDraw2 on g, the first 'discard' succeeds and draws a card that
\* is not a Draw-Two.
ChainGoesOn(g) ==
    /\ ChainOpens(g)
    /\ LET r2 == handleDraw2Card(useDraw2(g, rng).g, "discard", NoIndex, rng)
       IN  r2.success /\ r2.info = "cardsRemaining"

Draw2Scenario ==
    (Live /\ drawnCard = PowerCard("draw2"))
        => LET r1 == useDraw2(Game, rng)
               r2 == handleDraw2Card(r1.g, "discard", NoIndex, rng)
               r3 == handleDraw2Card(r2.g, "discard", NoIndex, rng)
           IN  /\ r1.success
                   => /\ r1.g.draw2ChainActive
                      /\ r1.g.draw2CardsRemaining = 2
                      /\ Last(r1.g.discardPile) = PowerCard("draw2")
               /\ ChainGoesOn(Game)
                   => /\ r2.g.draw2ChainActive
                      /\ r2.g.draw2CardsRemaining = 1
                      /\ CurrentPlayerId(r2.g) = CurrentPlayerId(Game)
                      /\ r3.success
                      /\ r3.info = "draw2Complete"
                      /\ ~r3.g.draw2ChainActive
                      /\ r3.g.drawnCard = NullCard
                      /\ TurnHasEnded(Game, r3.g)

\* A Draw-Two card is pending in a round of two or more, and the scenario
\* runs to its end on it: useDraw2 and both discards succeed without a
\* further Draw-Two, and the turn passes to another player.
Draw2ScenarioWitness ==
    /\ Live /\ gameStarted /\ ~roundEnded /\ Len(players) >= 2
    /\ drawnCard = PowerCard("draw2")
    /\ ChainGoesOn(Game)
    /\ LET r1 == useDraw2(Game, rng)
           r2 == handleDraw2Card(r1.g, "discard", NoIndex, rng)
           r3 == handleDraw2Card(r2.g, "discard", NoIndex, rng)
       IN  /\ r3.success
           /\ ~r3.g.roundEnded
           /\ CurrentPlayerId(r3.g) # CurrentPlayerId(Game)

----------------------------------------------------------------------------
\* C17.  Only Swap has a no-op resolution: when the pending card is a Peek,
\* Draw-Two or Add-Card, no call other than usePeek / useDraw2 / useAddCard
\* respectively (in particular not discardDrawnCard or replaceCardInHand)
\* succeeds in resolving it.

MustUseKinds == {"peek", "draw2", "addcard"}

\* The method that exercises the power of a card of the given type.
UseMethod(type) ==
    CASE type = "peek" -> "usePeek"
      [] type = "draw2" -> "useDraw2"
      [] type = "addcard" -> "useAddCard"
      [] OTHER -> "useSwap"

PowerMethods == {"usePeek", "useSwap", "declineSwap", "useDraw2", "useAddCard"}

OnlySwapHasNoOp ==
    (Live /\ gameStarted /\ ~draw2ChainActive /\ ~drawnFromDiscard
          /\ drawnCard.type \in MustUseKinds)
        => \A c \in TurnCalls :
               (c.op \in {"discardDrawnCard", "replaceCardInHand"}
                   \cup PowerMethods)
                   => (c.r.success => c.op = UseMethod(drawnCard.type))

\* C17 as amended: only Swap has a dedicated no-op resolution: when the
\* pending card is a Peek, Draw-Two or Add-Card, the only power method that
\* succeeds is usePeek / useDraw2 / useAddCard respectively (declineSwap,
\* useSwap and the other cards' methods fail and leave the match state
\* unchanged); like any card drawn from the deck, the card can still be
\* discarded by discardDrawnCard.
OnlySwapHasDecline ==
    (Live /\ drawnCard.type \in MustUseKinds)
        => /\ \A c \in TurnCalls :
                (c.op \in PowerMethods /\ c.op # UseMethod(drawnCard.type))
                    => /\ c.r.outcome = "returned"
                       /\ ~c.r.success
                       /\ c.r.g = Game
           /\ ~drawnFromDiscard
                => LET r == discardDrawnCard(Game, rng)
                   IN  /\ r.success
                       /\ r.g.drawnCard = NullCard
                       /\ drawnCard \in {r.g.discardPile[k] :
                                            k \in 1..Len(r.g.discardPile)}
                             \/ r.g.roundEnded

\* A Peek, Draw-Two or Add-Card has just been drawn from the deck in a
\* started round: declineSwap refuses it and discardDrawnCard takes it.
OnlySwapHasDeclineWitness ==
    /\ Live /\ gameStarted /\ ~roundEnded /\ Len(players) >= 2
    /\ last.op = "drawFromDeck" /\ last.success
    /\ drawnCard.type \in MustUseKinds
    /\ ~declineSwap(Game, rng).success
    /\ discardDrawnCard(Game, rng).success

----------------------------------------------------------------------------
\* C18.  Blind swap: after a successful useSwap(i, opp, j) that does not end
\* the round, neither participant is shown the card received: the acting
\* player's projection masks their slot i and the opponent's projection masks
\* their slot j as the hidden placeholder, for every valid i and j.

\* The card shown to the player with id playerId in slot i (0-based) of
\* their own hand.
ShownOwnCard(g, playerId, i) ==
    getGameState(g, playerId).players[FindPlayer(g, playerId)].hand[i + 1].card

BlindSwap ==
    Live => \A i, j \in CardIndexes, opp \in OpponentIds :
                LET r == useSwap(Game, i, opp, j, rng)
                IN  (r.success /\ ~r.g.roundEnded)
                        => /\ ShownOwnCard(r.g, CurrentPlayerId(Game), i) = HiddenCard
                           /\ ShownOwnCard(r.g, opp, j) = HiddenCard

\* The same for the slots that are not outer ones (neither the first nor the
\* last of the hand).
BlindSwapInner ==
    Live => \A i, j \in CardIndexes, opp \in OpponentIds :
                LET r == useSwap(Game, i, opp, j, rng)
                    p == currentPlayerIndex + 1
                    o == FindPlayer(Game, opp)
                IN  (r.success /\ ~r.g.roundEnded)
                        => /\ (i # 0 /\ i # Len(players[p].hand) - 1)
                                => ShownOwnCard(r.g, CurrentPlayerId(Game), i)
                                     = HiddenCard
                           /\ (j # 0 /\ j # Len(players[o].hand) - 1)
                                => ShownOwnCard(r.g, opp, j) = HiddenCard

----------------------------------------------------------------------------
\* C19.  Add-Card effect: a successful useAddCard() lengthens the acting
\* player's hand by exactly one (a new last slot, known = false) when a card
\* can be drawn and by zero when none can; in both cases the Add-Card card
\* is pushed to the discard pile, the pending card is cleared, the turn ends,
\* and all other slots of all hands keep their cards.

\* h is g after the acting player of g got card appended face-down (no card
\* when card is NullCard), with every other slot of every hand as in g.
HandGrownBy(g, h, card) ==
    LET p == g.currentPlayerIndex + 1
    IN  /\ Ids(h) = Ids(g)
        /\ \A q \in 1..Len(g.players) :
            IF q = p /\ Truthy(card)
            THEN /\ h.players[q].hand = Append(g.players[q].hand, card)
                 /\ h.players[q].knownCards
                      = Append(g.players[q].knownCards, FALSE)
            ELSE /\ h.players[q].hand = g.players[q].hand
                 /\ h.players[q].knownCards = g.players[q].knownCards

AddCardEffect ==
    Live => LET r == useAddCard(Game, rng)
            IN  r.success
                    => /\ HandGrownBy(Game, r.g, r.card)
                       /\ Last(r.g.discardPile) = PowerCard("addcard")
                       /\ r.g.drawnCard = NullCard
                       /\ TurnHasEnded(Game, r.g)

\* C19 as amended: the same, for every successful useAddCard() that does not
\* end the round (the call that ends the round also runs the replacement
\* sweep of endRound over every hand).
AddCardEffectInRound ==
    Live => LET r == useAddCard(Game, rng)
            IN  (r.success /\ ~r.g.roundEnded)
                    => /\ HandGrownBy(Game, r.g, r.card)
                       /\ Truthy(r.card) <=> Truthy(drawCard(Game, rng).card)
                       /\ Last(r.g.discardPile) = PowerCard("addcard")
                       /\ r.g.drawnCard = NullCard
                       /\ TurnHasEnded(Game, r.g)

\* An Add-Card has just been played in a round that goes on: a hand has a
\* fifth, unknown slot and the Add-Card card tops the discard pile.
AddCardEffectWitness ==
    /\ Live /\ gameStarted /\ ~roundEnded /\ Len(players) >= 2
    /\ last.op = "useAddCard" /\ last.success
    /\ Last(discardPile) = PowerCard("addcard")
    /\ drawnCard = NullCard
    /\ \E k \in 1..Len(players) :
        /\ Len(players[k].hand) = HandSize + 1
        /\ players[k].knownCards[HandSize + 1] = FALSE
        /\ players[k].id # CurrentPlayerId(Game)

----------------------------------------------------------------------------
\* C20.  The card appended by Add-Card is face-down to its owner: after a
\* successful useAddCard() that added a card and did not end the round, the
\* acting player's own projection shows the appended slot as the hidden
\* placeholder.
AddedCardFaceDown ==
    (Live /\ gameStarted)
        => LET r == useAddCard(Game, rng)
               p == currentPlayerIndex + 1
           IN  (r.success /\ Truthy(r.card) /\ ~r.g.roundEnded)
                   => ShownOwnCard(r.g, CurrentPlayerId(Game),
                                   Len(players[p].hand)) = HiddenCard

\* What the projection does show: the appended slot is marked not known, and
\* its card is shown because the slot is the last of the hand.
AddedCardShownAsOuter ==
    (Live /\ gameStarted)
        => LET r == useAddCard(Game, rng)
               p == currentPlayerIndex + 1
               slot == getGameState(r.g, CurrentPlayerId(Game))
                          .players[p].hand[Len(players[p].hand) + 1]
           IN  (r.success /\ Truthy(r.card) /\ ~r.g.roundEnded)
                   => /\ slot.card = r.card
                      /\ slot.isKnown = FALSE
                      /\ slot.isOuter = TRUE

----------------------------------------------------------------------------
\* C21.  Peek is transient: a successful usePeek(index) returns exactly the
\* acting player's card at index, changes no hand and no known-mask entry of
\* any player, pushes the Peek card to the discard pile, clears the pending
\* card and ends the turn; with an out-of-range index it fails and changes
\* nothing.

\* usePeek(k) ended as r on g with the effect of a transient peek.
PeekEffect(g, r, k) ==
    /\ r.card = getCurrentPlayer(g).hand[k + 1]
    /\ Hands(r.g) = Hands(g)
    /\ Masks(r.g) = Masks(g)
    /\ r.g.discardPile = Append(g.discardPile, PowerCard("peek"))
    /\ r.g.drawnCard = NullCard
    /\ TurnHasEnded(g, r.g)

PeekTransient ==
    Live => \A k \in CardIndexes :
                LET r == usePeek(Game, k, rng)
                IN  /\ r.outcome = "returned"
                    /\ r.success => PeekEffect(Game, r, k)
                    /\ ~ValidIndex(getCurrentPlayer(Game).hand, k)
                           => ~r.success /\ r.g = Game

\* C21 as amended: the same, for every successful usePeek(index) that does
\* not end the round (the call that ends the round also runs the replacement
\* sweep of endRound, which rewrites hands and marks slots known).
PeekTransientInRound ==
    Live => \A k \in CardIndexes :
                LET r == usePeek(Game, k, rng)
                IN  /\ r.outcome = "returned"
                    /\ (r.success /\ ~r.g.roundEnded) => PeekEffect(Game, r, k)
                    /\ ~ValidIndex(getCurrentPlayer(Game).hand, k)
                           => ~r.success /\ r.g = Game

\* A Peek has just been played in a round that goes on, and every slot of
\* every hand is still unknown.
PeekTransientWitness ==
    /\ Live /\ gameStarted /\ ~roundEnded /\ Len(players) >= 2
    /\ last.op = "usePeek" /\ last.success
    /\ Last(discardPile) = PowerCard("peek")
    /\ drawnCard = NullCard
    /\ \A q \in 1..Len(players) :
        \A k \in 1..Len(players[q].knownCards) : ~players[q].knownCards[k]

----------------------------------------------------------------------------
\* C22.  Replacement: a successful replaceCardInHand(k) puts the pending card
\* into slot k of the acting player's hand, makes the card previously in
\* slot k the new discard top, leaves every known-mask entry and every other
\* hand slot unchanged, clears the pending card and passes the turn to the
\* next player.  Stated for a match of two players or more.

\* The id of the player after the current one in turn order (in the final
\* round: the next one who is not the knocker).
NextPlayerId(g) ==
    LET n == Len(g.players)
        i1 == (g.currentPlayerIndex + 1) % n
        i2 == (i1 + 1) % n
    IN  IF g.finalRoundActive /\ g.players[i1 + 1].id = g.knockerId
        THEN g.players[i2 + 1].id
        ELSE g.players[i1 + 1].id

\* replaceCardInHand(k) ended as r on g with the card placed in slot k.
ReplaceEffect(g, r, k) ==
    LET p == g.currentPlayerIndex + 1
    IN  /\ Hands(r.g) = [Hands(g) EXCEPT ![p][k + 1] = g.drawnCard]
        /\ Masks(r.g) = Masks(g)
        /\ r.g.discardPile = Append(g.discardPile, g.players[p].hand[k + 1])
        /\ r.g.drawnCard = NullCard

Replacement ==
    (Live /\ Len(players) >= 2)
        => \A k \in CardIndexes :
               LET r == replaceCardInHand(Game, k, rng)
               IN  r.success
                       => /\ ReplaceEffect(Game, r, k)
                          /\ CurrentPlayerId(r.g) = NextPlayerId(Game)
                          /\ CurrentPlayerId(r.g) # CurrentPlayerId(Game)

\* C22 as amended: the same, for every successful replaceCardInHand(k) that
\* does not end the round, in a match of two players or more; the next
\* player is the next one in turn order who is not the knocker.
ReplacementInRound ==
    (Live /\ Len(players) >= 2)
        => \A k \in CardIndexes :
               LET r == replaceCardInHand(Game, k, rng)
               IN  (r.success /\ ~r.g.roundEnded)
                       => /\ ReplaceEffect(Game, r, k)
                          /\ CurrentPlayerId(r.g) = NextPlayerId(Game)
                          /\ CurrentPlayerId(r.g) # CurrentPlayerId(Game)

\* The scenario of the claim: two players, startRound, drawFromDeck(); then
\* replaceCardInHand(0) leaves the original slot-0 card on the discard top
\* and player 2 to act.
ReplacementWitness ==
    /\ Live /\ gameStarted /\ ~roundEnded /\ Len(players) = 2
    /\ rounds = 1 /\ removals = 0 /\ currentPlayerIndex = 0
    /\ last.op = "drawFromDeck" /\ last.success
    /\ LET r == replaceCardInHand(Game, 0, rng)
       IN  /\ r.success
           /\ Last(r.g.discardPile) = players[1].hand[1]
           /\ r.g.players[1].hand[1] = drawnCard
           /\ CurrentPlayerId(r.g) = players[2].id

\* ---------------------------------------------------------------------
\* C23  Round setup.

RECURSIVE AllHands(_, _)
AllHands(ps, p) ==
    IF p > Len(ps) THEN <<>> ELSE ps[p].hand \o AllHands(ps, p + 1)

\* The cards of a game, wherever they lie.
CardsInPlay(g) == g.deck \o g.discardPile \o AllHands(g.players, 1)

SameMultiset(s, t) ==
    /\ Len(s) = Len(t)
    /\ \A k \in 1..Len(t) : SlotsHolding(s, t[k]) = SlotsHolding(t, t[k])

\* What the round looks like after startRound, apart from the size of the
\* deck: four unknown cards each, one Number card discarded, the first
\* player to act, the knock and round-end state reset.
RoundDealt(g) ==
    /\ \A p \in 1..Len(g.players) :
           /\ Len(g.players[p].hand) = HandSize
           /\ g.players[p].knownCards = Repeat(FALSE, HandSize)
    /\ Len(g.discardPile) = 1
    /\ g.discardPile[1].type = "number"
    /\ g.currentPlayerIndex = 0
    /\ g.knockerId = NoId
    /\ ~g.finalRoundActive
    /\ g.playersCompletedFinalTurn = 0
    /\ ~g.roundEnded

\* C23 as stated: startRound on the deck of the program, with n >= 2
\* players, leaves 72 - 4n - 1 cards in the draw pile and 72 cards in play,
\* dealt as RoundDealt says; with fewer than two players it fails and
\* changes nothing.
RoundSetup ==
    Running
        => \A seed \in Seeds :
               LET r == startRoundWith(Game, GameDeck, seed)
                   n == Len(players)
               IN  /\ n < 2 => (~r.success /\ r.g = Game)
                   /\ (n >= 2 /\ r.success)
                          => /\ RoundDealt(r.g)
                             /\ Len(r.g.deck) = 72 - 4 * n - 1
                             /\ Len(CardsInPlay(r.g)) = 72
                             /\ SameMultiset(CardsInPlay(r.g), GameDeck)

\* C23 as amended: the deck has 56 cards (0..8 four times, nine 9s, three
\* each of Peek, Swap and Draw Two, two Add Card), so the draw pile holds
\* 56 - 4n - 1 cards and the cards in play are that 56-card multiset; the
\* rest as stated.  Checked on the deck of the model in every state, and
\* on the deck of the program where the server starts a round (in the
\* lobby and after a round has ended): startRound overwrites the piles and
\* the hands, so what it leaves does not depend on the play before it.
RoundSetupOf56 ==
    Running
        => \A seed \in Seeds :
               LET r == startRoundWith(Game, GameDeck, seed)
                   m == startRound(Game, seed)
                   n == Len(players)
               IN  /\ n < 2 => (~m.success /\ m.g = Game)
                   /\ (n < 2 /\ (~gameStarted \/ roundEnded))
                          => (~r.success /\ r.g = Game)
                   /\ (n >= 2 /\ (~gameStarted \/ roundEnded) /\ r.success)
                          => /\ RoundDealt(r.g)
                             /\ Len(r.g.deck) = 56 - 4 * n - 1
                             /\ Len(CardsInPlay(r.g)) = 56
                             /\ SameMultiset(CardsInPlay(r.g), GameDeck)
                   /\ (n >= 2 /\ m.success)
                          => /\ RoundDealt(m.g)
                             /\ Len(m.g.deck) = DeckSize - 4 * n - 1
                             /\ SameMultiset(CardsInPlay(m.g), BuildDeck)

\* A round has just been started with three players: thirteen cards have
\* left the deck, and the same call on the deck of the program leaves 43.
RoundSetupWitness ==
    /\ Running /\ last.op = "startRound" /\ last.success
    /\ Len(players) = 3
    /\ RoundDealt(Game)
    /\ Len(deck) = DeckSize - 13
    /\ \E seed \in Seeds :
           LET r == startRoundWith(Game, GameDeck, seed)
           IN  r.success /\ Len(r.g.deck) = 43

\* ---------------------------------------------------------------------
\* C24  Round end and scoring.

\* The while loop of endRound on slot i of player p comes to a draw with no
\* card to give: the draw pile is empty and the discard pile has nothing to
\* reshuffle.
RECURSIVE SlotExhausts(_, _, _, _)
SlotExhausts(g, p, i, seed) ==
    IF ~isPowerCard(g.players[p].hand[i + 1]) THEN FALSE
    ELSE IF Len(g.deck) = 0 /\ Len(g.discardPile) <= 1 THEN TRUE
    ELSE LET d == drawCard(g, seed)
         IN  IF Truthy(d.card) /\ isPowerCard(d.card)
             THEN SlotExhausts(d.g, p, i, seed)
             ELSE FALSE

RECURSIVE HandExhausts(_, _, _, _)
HandExhausts(g, p, i, seed) ==
    IF i >= Len(g.players[p].hand) THEN FALSE
    ELSE \/ SlotExhausts(g, p, i, seed)
         \/ HandExhausts(SweepSlot(g, p, i, seed), p, i + 1, seed)

\* The piles are exhausted at some draw of the replacement sweep.
RECURSIVE SweepExhausts(_, _, _)
SweepExhausts(g, p, seed) ==
    IF p > Len(g.players) THEN FALSE
    ELSE \/ HandExhausts(g, p, 0, seed)
         \/ SweepExhausts(SweepHand(g, p, 0, seed), p + 1, seed)

\* What endRound leaves of game g in game h.
RoundScored(g, h) ==
    /\ h.roundEnded
    /\ \A p \in 1..Len(g.players) :
           LET before == g.players[p]
               after == h.players[p]
           IN  /\ Len(after.hand) = Len(before.hand)
               /\ \A k \in 1..Len(after.hand) :
                      /\ ~isPowerCard(after.hand[k])
                      /\ isPowerCard(before.hand[k]) => after.knownCards[k]
                      /\ ~isPowerCard(before.hand[k])
                             => /\ after.hand[k] = before.hand[k]
                                /\ after.knownCards[k] = before.knownCards[k]
               /\ after.score = SumPoints(after.hand)
               /\ after.totalScore = before.totalScore + after.score

\* C24: endRound, when the piles are not exhausted during its sweep, leaves
\* no power card in any hand, marks every replaced slot known, sets each
\* round score to the sum of the Number values of the hand and adds it to
\* the cumulative score.  Violated where the sweep draws a null that
\* handleDraw2Card has put on the discard pile: the slot keeps its power
\* card with cards left in the piles.
RoundEndScoring ==
    (Live /\ gameStarted)
        => \A seed \in Seeds :
               ~SweepExhausts(Game, 1, seed)
                   => RoundScored(Game, endRound(Game, seed))

\* ---------------------------------------------------------------------
\* C25  At most one knock per round.

\* C25: once a knock has succeeded, knock() fails with 'Someone already
\* knocked' and changes nothing, whoever is to act, and the recorded
\* knocker stays the same in every step that is not a startRound.
AtMostOneKnock ==
    [][knockerId # NoId
           => /\ LET r == knock(Game)
                 IN  /\ ~r.success
                     /\ r.error = "Someone already knocked"
                     /\ r.g = Game
              /\ last'.op # "startRound" => knockerId' = knockerId]_vars

\* A final turn has been played after a knock: the knocker is still
\* recorded and a second knock by the player now to act is refused.
AtMostOneKnockWitness ==
    /\ Live /\ gameStarted /\ ~roundEnded
    /\ knockerId # NoId
    /\ Len(final.turns) > 0
    /\ CurrentPlayerId(Game) # knockerId
    /\ ~knock(Game).success

\* ---------------------------------------------------------------------
\* C26  Every call runs to completion.

\* C26: in every reachable state of a round each call of knock() and of the other
\* turn methods (with the endTurn loop and the endRound sweep they run)
\* comes to an end.  Violated by knock() with one player left: its do-while
\* looks for a player who is not the knocker.
CallsTerminate ==
    (Live /\ gameStarted /\ ~roundEnded)
        => \A c \in TurnCalls : c.r.outcome # "hung"

\* ---------------------------------------------------------------------
\* C27  Reshuffle on an empty draw pile.

\* C27: a draw from an empty draw pile with more than one discard leaves
\* the former top as the only discard, and the card it returns together
\* with the new draw pile is the multiset of the other former discards;
\* with at most one discard it returns no card and leaves both piles as
\* they are.  drawFromDeck() hands on what the draw gives.
ReshuffleOnEmpty ==
    (Live /\ Len(deck) = 0)
        => \A seed \in Seeds :
               LET d == drawCard(Game, seed)
                   r == drawFromDeck(Game, seed)
               IN  /\ Len(discardPile) > 1
                          => /\ d.g.discardPile = <<Last(discardPile)>>
                             /\ SameMultiset(<<d.card>> \o d.g.deck,
                                             Front(discardPile))
                   /\ Len(discardPile) <= 1
                          => /\ d.card = NullCard
                             /\ d.g.deck = deck
                             /\ d.g.discardPile = discardPile
                   /\ ~Truthy(drawnCard)
                          => /\ r.g.deck = d.g.deck
                             /\ r.g.discardPile = d.g.discardPile
                             /\ r.g.drawnCard = d.card
                             /\ r.success <=> Truthy(d.card)

\* The draw pile is empty, three discards or more lie under the top one and
\* no card is pending: drawFromDeck() reshuffles them and hands out one.
ReshuffleOnEmptyWitness ==
    /\ Live /\ gameStarted /\ ~roundEnded
    /\ Len(deck) = 0 /\ Len(discardPile) >= 4
    /\ ~Truthy(drawnCard)
    /\ LET r == drawFromDeck(Game, rng)
       IN  /\ r.success
           /\ Len(r.g.deck) = Len(discardPile) - 2
           /\ r.g.discardPile = <<Last(discardPile)>>

\* ---------------------------------------------------------------------
\* C28  A round ends at most once.

\* C28: once the round has ended no turn method changes a hand, a round
\* score or a cumulative score.  Violated: no method tests roundEnded, so a
\* draw and a terminal action after the end run endRound() again and add
\* the round score a second time.
RoundEndsOnce ==
    (Live /\ roundEnded)
        => \A c \in TurnCalls : \A p \in 1..Len(players) :
               /\ c.r.g.players[p].hand = players[p].hand
               /\ c.r.g.players[p].score = players[p].score
               /\ c.r.g.players[p].totalScore = players[p].totalScore

\* ---------------------------------------------------------------------
\* C29  A pending card stays with the player who drew it.

\* C29: a card is made pending by a draw of the player to act, so it stays
\* with its drawer if every step that leaves a card pending leaves the same
\* player to act, who alone is shown it by getGameState.  Violated by
\* removePlayer of the player to act and by startRound, which keep the
\* pending card and hand the turn to another player.
PendingCardOfDrawer ==
    [][Truthy(drawnCard')
           => /\ CurrentPlayerId(Game)' = CurrentPlayerId(Game)
              /\ \A id \in PlayerIds :
                     Truthy(getGameState(Game, id).drawnCard)'
                         => id = CurrentPlayerId(Game)]_vars

\* ---------------------------------------------------------------------
\* C30  Removing another player keeps the player to act.

\* C30: removePlayer(id) of a player other than the one to act leaves the
\* same player to act.  Violated when the removed player stands earlier in
\* the list: the players behind move up one place and the index does not.
RemovalKeepsCurrentPlayer ==
    (Live /\ gameStarted /\ HasCurrentPlayer(Game))
        => \A id \in PlayerIds :
               (HasPlayer(Game, id) /\ id # CurrentPlayerId(Game))
                   => CurrentPlayerId(removePlayer(Game, id).g)
                          = CurrentPlayerId(Game)

\* ---------------------------------------------------------------------
\* C31  Every discard is a card.

\* C31: no entry of the discard pile is null.  Violated by
\* handleDraw2Card('discard'), which pushes the pending card without
\* testing that there is one.
DiscardsAreCards ==
    \A k \in 1..Len(discardPile) : Truthy(discardPile[k])

\* ---------------------------------------------------------------------
\* C32  startRound resets the turn state.

\* C32: after a successful startRound no card is pending, drawnFromDiscard
\* is false and the Draw-Two chain is inactive with no draws remaining.
\* Violated: startRound resets the piles, the hands and the knock state
\* only, so what a turn left pending is carried into the new round.
StartRoundResetsTurn ==
    (last.op = "startRound" /\ last.success)
        => /\ drawnCard = NullCard
           /\ ~drawnFromDiscard
           /\ ~draw2ChainActive
           /\ draw2CardsRemaining = 0

\* ---------------------------------------------------------------------
\* C33  The source flag and the pending card.

\* C33: whenever drawnFromDiscard is set a card is pending and it is a
\* Number card.  Violated inside a Draw-Two chain left open: the card taken
\* from the discard pile is discarded by handleDraw2Card, whose next draw
\* becomes pending with the flag still set.
SourceFlagConsistent ==
    drawnFromDiscard
        => /\ Truthy(drawnCard)
           /\ drawnCard.type = "number"

\* ---------------------------------------------------------------------
\* C34  The Draw-Two budget.

\* C34: draw2CardsRemaining is 0, 1 or 2 in every state, and 1 or 2
\* whenever the chain is active.
Draw2BudgetBound ==
    /\ draw2CardsRemaining \in 0..Draw2Budget
    /\ draw2ChainActive => draw2CardsRemaining \in 1..Draw2Budget

\* A Draw-Two drawn inside a chain has just set the count back to 2.
Draw2BudgetWitness ==
    /\ Live /\ draw2ChainActive
    /\ last.op \in {"useDraw2", "handleDraw2Card"}
    /\ last.info = "chaining"
    /\ draw2CardsRemaining = Draw2Budget
    /\ Len(discardPile) >= 2
    /\ discardPile[Len(discardPile)].type = "draw2"
    /\ discardPile[Len(discardPile) - 1].type = "draw2"

\* ---------------------------------------------------------------------
\* C35  No slot is known during a round.

\* C35: from startRound until the round ends every known-mask entry of
\* every player is false.
NothingKnownInRound ==
    (gameStarted /\ ~roundEnded)
        => \A p \in 1..Len(players) : \A k \in 1..Len(players[p].knownCards) :
               ~players[p].knownCards[k]

\* A power card has been played in a round still going on in which an
\* Add-Card has grown a hand, and no slot is marked known.
NothingKnownWitness ==
    /\ Live /\ gameStarted /\ ~roundEnded
    /\ last.op \in {"usePeek", "useSwap", "useAddCard"} /\ last.success
    /\ \E p \in 1..Len(players) :
           /\ Len(players[p].hand) = HandSize + 1
           /\ players[p].knownCards = Repeat(FALSE, HandSize + 1)

\* ---------------------------------------------------------------------
\* C36  A round ends only through a knock.

\* C36: whenever roundEnded is true a knocker is recorded and the final
\* round is active.
RoundEndsByKnock ==
    roundEnded => (knockerId # NoId /\ finalRoundActive)

\* The last final turn after a knock has just ended the round: every
\* player but the knocker has had a final turn.
RoundEndsByKnockWitness ==
    /\ Live /\ roundEnded /\ removals = 0
    /\ knockerId # NoId /\ finalRoundActive
    /\ Len(players) >= 2
    /\ Len(final.turns) = Len(players) - 1
    /\ playersCompletedFinalTurn = Len(players) - 1

\* ---------------------------------------------------------------------
\* C37  The turn pointer names a player.

\* C37: whenever the match has a player, currentPlayerIndex is an index of
\* the player list.
TurnPointerValid ==
    Len(players) > 0 => currentPlayerIndex \in 0..(Len(players) - 1)

\* The last player of the list was to act and has been removed from a
\* started match: the pointer has gone back to the first player.
TurnPointerValidWitness ==
    /\ Live /\ gameStarted
    /\ last.op = "removePlayer"
    /\ Len(players) = 2
    /\ players[1].id = 1 /\ players[2].id = 2
    /\ currentPlayerIndex = 0
    /\ Len(final.turns) = 1 /\ final.turns[1] = 2
    /\ knockerId = 1

====
